---- MODULE Spec2Model ----
(***************************************************************************)
(* Order lifecycle and payment reconciliation of the storefront backend:   *)
(* OrdersService (create, cancelOrder, updateStatus, updatePaymentProof,   *)
(* updateTracking, archiveOrder, unarchiveOrder) and PaymentService        *)
(* (initiatePayment, handleWebhook, handlePayPalWebhook).                  *)
(*                                                                         *)
(* Every request handler runs in one of the processes of Procs.  A handler *)
(* is cut at its awaits on the database: each action below is the code     *)
(* between two such awaits, so two handlers interleave exactly where the   *)
(* Node.js event loop lets them.  A document loaded with findById is a     *)
(* private snapshot (loc[p].snap); order.save() writes back the paths the  *)
(* handler assigned a new value to, as Mongoose does.                      *)
(***************************************************************************)
EXTENDS Integers, Sequences, FiniteSets, TLC

\* ------------------------------------------------------------------ bounds
MaxOps    == 3      \* request handlers started in one behaviour
MaxOrders == 2      \* orders created in one behaviour
MaxQty    == 2      \* largest quantity of one requested line
MaxStock  == 2      \* largest initial stock of a variant

Procs == {"p1", "p2"}

None == "none"      \* undefined / null / absent

\* Catalog: v1 and v2 are variants of priced products, v3 is a variant whose
\* product has no numeric price, v9 is an id no variant has.
Variants     == {"v1", "v2", "v3"}
UnknownVariant == "v9"
Priced == {"v1", "v2"}
Price == [v \in Priced |-> IF v = "v1" THEN 100 ELSE 250]

Users == {"u1"}

Statuses == {"esperando_pago", "pagada", "en_produccion", "enviada",
             "completada", "cancelada", "archivada"}

VARIABLES
    stock,          \* Variant.stock, per variant
    orders,         \* the orders collection: a sequence, _id = index
    orderItems,     \* the order_items collection
    vtoTokens,      \* User.vtoTokens, per user
    notified,       \* notified[o][e]: calls of the notification e for order o
    gatewayCalls,   \* gatewayCalls[o]: gateway.initiatePayment calls for order o
    webhookSecret,  \* ONVOPAY_WEBHOOK_SECRET of the deployment (None: not set)
    pc,             \* pc[p]: where process p is in its handler
    loc,            \* loc[p]: the handler's arguments and local variables
    ops,            \* handlers started so far
    \* The ledger: what the handlers have done so far, read by no handler.
    debited,        \* debited[o][v]: stock of v taken by create for order o
    credited,       \* credited[o][v]: stock of v returned by cancelOrder for o
    granted,        \* granted[o]: token awards made for order o
    stockAtCreate   \* stockAtCreate[o]: the stock when order o was persisted

ledger == <<debited, credited, granted, stockAtCreate>>

vars == <<stock, orders, orderItems, vtoTokens, notified, gatewayCalls,
          webhookSecret, pc, loc, ops, debited, credited, granted, stockAtCreate>>

\* ------------------------------------------------------------------ values
PaidStatuses == {"pagada", "en_produccion", "enviada", "completada"}

EventNames == {"order.created", "payment.proofReceived", "payment.approved",
               "payment.rejected", "order.inProduction", "order.shipped",
               "order.completed"}

OrderIds == 1..MaxOrders

\* Order.paymentProof before any proof was recorded: every field undefined.
NoProof == [url |-> None, method |-> None, reference |-> None,
            status |-> None, reason |-> None]

NoOrder == [user |-> None, orderType |-> None, status |-> None,
            paymentProof |-> NoProof, trackingNumber |-> None]

\* The locals of a process that runs no handler.
IdleLoc == [op |-> None, caller |-> None, orderId |-> 0, req |-> None,
            status |-> None, proof |-> NoProof, next |-> None, snap |-> NoOrder,
            itemsData |-> <<>>, idx |-> 0, result |-> None]

Exists(o) == o \in 1..Len(orders)

\* One more call of the notification e for order o.
Notify(n, o, e) == [n EXCEPT ![o][e] = @ + 1]

\* The handler of p returns (or throws) res; the request (op, orderId, req) and
\* its response stay visible until p takes the next request.
Return(p, res) ==
    /\ pc' = [pc EXCEPT ![p] = "idle"]
    /\ loc' = [loc EXCEPT ![p] = [IdleLoc EXCEPT !.op = loc[p].op,
                                                 !.orderId = loc[p].orderId,
                                                 !.req = loc[p].req,
                                                 !.result = res]]

\* A new request may start on p.
CanStart(p) == pc[p] = "idle" /\ ops < MaxOps

Begin(p, at, l) ==
    /\ pc' = [pc EXCEPT ![p] = at]
    /\ loc' = [loc EXCEPT ![p] = l]
    /\ ops' = ops + 1

Goto(p, at, l) ==
    /\ pc' = [pc EXCEPT ![p] = at]
    /\ loc' = [loc EXCEPT ![p] = l]

\* ------------------------------------------------------------------ Init
Init ==
    /\ \E n \in 1..MaxStock : stock = [v \in Variants |-> n]
    /\ orders = <<>>
    /\ orderItems = <<>>
    /\ vtoTokens = [u \in Users |-> 4]
    /\ notified = [o \in OrderIds |-> [e \in EventNames |-> 0]]
    /\ gatewayCalls = [o \in OrderIds |-> 0]
    /\ webhookSecret \in {None, "s3cr3t"}
    /\ pc = [p \in Procs |-> "idle"]
    /\ loc = [p \in Procs |-> IdleLoc]
    /\ ops = 0
    /\ debited = [o \in OrderIds |-> [v \in Variants |-> 0]]
    /\ credited = [o \in OrderIds |-> [v \in Variants |-> 0]]
    /\ granted = [o \in OrderIds |-> 0]
    /\ stockAtCreate = [o \in OrderIds |-> [v \in Variants |-> 0]]

\* ------------------------------------------------------------------ create
\* Orders that exist or that a running create will still persist.
OrdersClaimed ==
    Len(orders) + Cardinality({p \in Procs : pc[p] = "create_validate"
                                          \/ pc[p] = "create_persist"})

\* OrdersService.create is called with dto = [items, user, orderType]; user is
\* the authenticated user of the request (None for a guest checkout).
StartCreate(p, dto) ==
    /\ CanStart(p)
    /\ OrdersClaimed < MaxOrders
    /\ Begin(p, IF Len(dto.items) = 0 THEN "create_persist" ELSE "create_validate",
             [IdleLoc EXCEPT !.op = "create", !.req = dto, !.idx = 1])
    /\ UNCHANGED <<stock, orders, orderItems, vtoTokens, notified, gatewayCalls,
                   webhookSecret, ledger>>

\* The stock test with its comparison off by one.
InsufficientStockOffByOne(have, quantity) == have <= quantity

\* The stock test of the validation loop.
InsufficientStock(have, quantity) == have < quantity

\* One iteration of the validation loop: variantModel.findById, the stock test,
\* the price lookup, orderItemsData.push.
CreateValidate(p) ==
    /\ pc[p] = "create_validate"
    /\ LET l == loc[p]
           item == l.req.items[l.idx]
       IN  IF item.variantId \notin Variants
             THEN Return(p, "NotFound")
           ELSE IF InsufficientStock(stock[item.variantId], item.quantity)
             THEN Return(p, "OutOfStock")
           ELSE IF item.variantId \notin Priced
             THEN Return(p, "PriceUnavailable")
           ELSE Goto(p, IF l.idx = Len(l.req.items) THEN "create_persist"
                                                     ELSE "create_validate",
                     [l EXCEPT !.idx = @ + 1,
                               !.itemsData = Append(@,
                                   [variantId |-> item.variantId,
                                    quantity |-> item.quantity,
                                    unitPrice |-> Price[item.variantId]])])
    /\ UNCHANGED <<stock, orders, orderItems, vtoTokens, notified, gatewayCalls,
                   webhookSecret, ledger, ops>>

\* The status a new order gets.
InitialStatus(orderType) ==
    IF orderType = "manual_sale" THEN "pagada" ELSE "esperando_pago"

\* new this.orderModel({...}).save()
CreatePersist(p) ==
    /\ pc[p] = "create_persist"
    /\ LET l == loc[p] IN
        /\ orders' = Append(orders,
              [user |-> l.req.user,
               orderType |-> IF l.req.orderType = None THEN "online"
                                                      ELSE l.req.orderType,
               status |-> InitialStatus(l.req.orderType),
               paymentProof |-> NoProof,
               trackingNumber |-> None])
        /\ Goto(p, IF Len(l.itemsData) = 0 THEN "create_notify" ELSE "create_item",
                [l EXCEPT !.orderId = Len(orders) + 1, !.idx = 1])
        /\ stockAtCreate' = [stockAtCreate EXCEPT ![Len(orders) + 1] = stock]
    /\ UNCHANGED <<stock, orderItems, vtoTokens, notified, gatewayCalls,
                   webhookSecret, debited, credited, granted, ops>>

\* orderItemModel.create for the line at idx.
CreateItem(p) ==
    /\ pc[p] = "create_item"
    /\ LET l == loc[p]
           d == l.itemsData[l.idx]
       IN  /\ orderItems' = Append(orderItems,
                  [orderId |-> l.orderId, variantId |-> d.variantId,
                   quantity |-> d.quantity, unitPrice |-> d.unitPrice])
           /\ Goto(p, "create_debit", l)
    /\ UNCHANGED <<stock, orders, vtoTokens, notified, gatewayCalls,
                   webhookSecret, ledger, ops>>

\* variantModel.updateOne({_id}, {$inc: {stock: -quantity}}) for the line at idx.
DebitStock(s, variantId, quantity) == [s EXCEPT ![variantId] = @ - quantity]

CreateDebit(p) ==
    /\ pc[p] = "create_debit"
    /\ LET l == loc[p]
           d == l.itemsData[l.idx]
       IN  /\ stock' = DebitStock(stock, d.variantId, d.quantity)
           /\ debited' = [debited EXCEPT ![l.orderId][d.variantId] = @ + d.quantity]
           /\ Goto(p, IF l.idx = Len(l.itemsData) THEN "create_notify"
                                                  ELSE "create_item",
                   [l EXCEPT !.idx = @ + 1])
    /\ UNCHANGED <<orders, orderItems, vtoTokens, notified, gatewayCalls,
                   webhookSecret, credited, granted, stockAtCreate, ops>>

\* A write of the loop rejects (the database is unreachable, the write times
\* out): the exception leaves create, which has no try/catch around the loop.
CreateItemFails(p) ==
    /\ pc[p] = "create_item"
    /\ Return(p, "WriteError")
    /\ UNCHANGED <<stock, orders, orderItems, vtoTokens, notified, gatewayCalls,
                   webhookSecret, ledger, ops>>

CreateDebitFails(p) ==
    /\ pc[p] = "create_debit"
    /\ Return(p, "WriteError")
    /\ UNCHANGED <<stock, orders, orderItems, vtoTokens, notified, gatewayCalls,
                   webhookSecret, ledger, ops>>

\* The tail of create: the order.created notification is started (not awaited)
\* and the saved order is returned.
CreateNotify(p) ==
    /\ pc[p] = "create_notify"
    /\ notified' = Notify(notified, loc[p].orderId, "order.created")
    /\ Return(p, "created")
    /\ UNCHANGED <<stock, orders, orderItems, vtoTokens, gatewayCalls,
                   webhookSecret, ledger, ops>>

\* ------------------------------------------------------------------ cancelOrder
StartCancel(p, o) ==
    /\ CanStart(p)
    /\ Begin(p, "cancel_read", [IdleLoc EXCEPT !.op = "cancelOrder", !.orderId = o])
    /\ UNCHANGED <<stock, orders, orderItems, vtoTokens, notified, gatewayCalls,
                   webhookSecret, ledger>>

\* A cancelOrder without the guard on the current status.
CancelGuardMissing(status) == FALSE

\* The guard of cancelOrder on the status it read.
CancelGuard(status) == status = "cancelada"

\* orderModel.findById and the two guards.
CancelRead(p) ==
    /\ pc[p] = "cancel_read"
    /\ LET l == loc[p] IN
         IF ~Exists(l.orderId) THEN Return(p, "NotFound")
         ELSE IF CancelGuard(orders[l.orderId].status)
           THEN Return(p, "AlreadyCancelled")
         ELSE Goto(p, "cancel_items", [l EXCEPT !.snap = orders[l.orderId]])
    /\ UNCHANGED <<stock, orders, orderItems, vtoTokens, notified, gatewayCalls,
                   webhookSecret, ledger, ops>>

\* orderItemModel.find({orderId})
ItemsOf(o) == SelectSeq(orderItems, LAMBDA it : it.orderId = o)

CancelItems(p) ==
    /\ pc[p] = "cancel_items"
    /\ LET l == loc[p]
           items == ItemsOf(l.orderId)
       IN  Goto(p, IF Len(items) = 0 THEN "cancel_save" ELSE "cancel_credit",
                [l EXCEPT !.itemsData = items, !.idx = 1])
    /\ UNCHANGED <<stock, orders, orderItems, vtoTokens, notified, gatewayCalls,
                   webhookSecret, ledger, ops>>

\* A credit of one unit per item, whatever its quantity.
CreditStockUnit(s, variantId, quantity) == [s EXCEPT ![variantId] = @ + 1]

\* variantModel.updateOne({_id}, {$inc: {stock: quantity}}) for the item at idx.
CreditStock(s, variantId, quantity) == [s EXCEPT ![variantId] = @ + quantity]

CancelCredit(p) ==
    /\ pc[p] = "cancel_credit"
    /\ LET l == loc[p]
           d == l.itemsData[l.idx]
       IN  /\ stock' = CreditStock(stock, d.variantId, d.quantity)
           /\ credited' = [credited EXCEPT ![l.orderId][d.variantId] = @ + d.quantity]
           /\ Goto(p, IF l.idx = Len(l.itemsData) THEN "cancel_save"
                                                  ELSE "cancel_credit",
                   [l EXCEPT !.idx = @ + 1])
    /\ UNCHANGED <<orders, orderItems, vtoTokens, notified, gatewayCalls,
                   webhookSecret, debited, granted, stockAtCreate, ops>>

\* order.status = 'cancelada'; order.save()
CancelSave(p) ==
    /\ pc[p] = "cancel_save"
    /\ orders' = [orders EXCEPT ![loc[p].orderId].status = "cancelada"]
    /\ Return(p, "cancelled")
    /\ UNCHANGED <<stock, orderItems, vtoTokens, notified, gatewayCalls,
                   webhookSecret, ledger, ops>>

\* ------------------------------------------------------------------ callers
\* updateStatus and updatePaymentProof are called by the orders controller
\* ("http"), by TelegramController.handleWebhook ("telegram") and by
\* PaymentService.handleWebhook / handlePayPalWebhook ("onvopay", "paypal").
AckFalse     == "received:false"
AckError     == "received:true,error"
AckProcessed == "received:true,processed:true"
AckIgnored   == "received:true,processed:false"

\* Callers without any try/catch: every exception reaches the HTTP layer.
ThrowUncaught(p, err) == Return(p, err)

\* An exception err leaves the service method running on p: the payment
\* webhooks and the Telegram controller catch it, the orders controller does not.
Throw(p, err) ==
    IF loc[p].caller \in {"onvopay", "paypal"} THEN Return(p, AckError)
    ELSE IF loc[p].caller = "telegram" THEN Return(p, "ok:true")
    ELSE Return(p, err)

\* The service method running on p returns normally.
Done(p, res) ==
    IF loc[p].caller \in {"onvopay", "paypal"} THEN Return(p, AckProcessed)
    ELSE IF loc[p].caller = "telegram" THEN Return(p, "ok:true")
    ELSE Return(p, res)

\* ------------------------------------------------------------------ updateStatus
StartUpdateStatus(p, o, status) ==
    /\ CanStart(p)
    /\ Begin(p, "us_read", [IdleLoc EXCEPT !.op = "updateStatus", !.caller = "http",
                                          !.orderId = o, !.status = status])
    /\ UNCHANGED <<stock, orders, orderItems, vtoTokens, notified, gatewayCalls,
                   webhookSecret, ledger>>

\* orderModel.findById(id).populate('user')
UsRead(p) ==
    /\ pc[p] = "us_read"
    /\ LET l == loc[p] IN
         IF ~Exists(l.orderId) THEN Throw(p, "NotFound")
         ELSE Goto(p, "us_save", [l EXCEPT !.snap = orders[l.orderId]])
    /\ UNCHANGED <<stock, orders, orderItems, vtoTokens, notified, gatewayCalls,
                   webhookSecret, ledger, ops>>

\* The payment-proof status updateStatus leaves in the loaded document.
SyncProofStatus(status, proofStatus) ==
    IF status \in PaidStatuses /\ proofStatus = "pending" THEN "verified"
    ELSE proofStatus

\* save() writes the paths whose value differs from the loaded one.
SavePath(stored, loaded, assigned) == IF assigned # loaded THEN assigned ELSE stored

\* order.status = status; the proof sync; order.save()
UsSave(p) ==
    /\ pc[p] = "us_save"
    /\ LET l == loc[p]
           cur == orders[l.orderId]
           proofStatus == SyncProofStatus(l.status, l.snap.paymentProof.status)
       IN  /\ orders' = [orders EXCEPT ![l.orderId] =
                 [cur EXCEPT !.status = SavePath(@, l.snap.status, l.status),
                             !.paymentProof.status =
                                 SavePath(@, l.snap.paymentProof.status, proofStatus)]]
           /\ Goto(p, "us_after", l)
    /\ UNCHANGED <<stock, orderItems, vtoTokens, notified, gatewayCalls,
                   webhookSecret, ledger, ops>>

\* order.save() of updateStatus rejects (a database error).
UsSaveFails(p) ==
    /\ pc[p] = "us_save"
    /\ Throw(p, "WriteError")
    /\ UNCHANGED <<stock, orders, orderItems, vtoTokens, notified, gatewayCalls,
                   webhookSecret, ledger, ops>>

\* The notification updateStatus sends for a status change (None: no notification).
StatusEvent(status) ==
    CASE status = "en_produccion" -> "order.inProduction"
      [] status = "enviada"       -> "order.shipped"
      [] status = "completada"    -> "order.completed"
      [] OTHER                    -> None

\* Whether updateStatus treats the call as a status change.
StatusChanged(status, previousStatus) == status # previousStatus

\* Whether updateStatus awards the VTO tokens.
AwardsTokens(status, previousStatus, user) ==
    StatusChanged(status, previousStatus) /\ status = "completada" /\ user # None

TokenGrant == 5

\* The part of updateStatus after save(): the status-change notification and the
\* token award; then the caller continues.
UsAfter(p) ==
    /\ pc[p] = "us_after"
    /\ LET l == loc[p]
           e == StatusEvent(l.status)
       IN  /\ notified' = IF StatusChanged(l.status, l.snap.status) /\ e # None
                            THEN Notify(notified, l.orderId, e) ELSE notified
           /\ vtoTokens' = IF AwardsTokens(l.status, l.snap.status, l.snap.user)
                             THEN [vtoTokens EXCEPT ![l.snap.user] = @ + TokenGrant]
                             ELSE vtoTokens
           /\ granted' = IF AwardsTokens(l.status, l.snap.status, l.snap.user)
                           THEN [granted EXCEPT ![l.orderId] = @ + 1]
                           ELSE granted
           /\ IF l.next = "updatePaymentProof"
                THEN Goto(p, "upp_read", [l EXCEPT !.next = None, !.snap = NoOrder])
                ELSE Done(p, "ok")
    /\ UNCHANGED <<stock, orders, orderItems, gatewayCalls, webhookSecret,
                   debited, credited, stockAtCreate, ops>>

\* ------------------------------------------------------------------ updatePaymentProof
\* JavaScript's a || b on the values of the model.
Falsy(x) == x = None \/ x = ""
Or(a, b) == IF Falsy(a) THEN b ELSE a

\* storageService.store: the stored reference is the data URI itself.
Store(url) == url

\* The paymentProof updatePaymentProof assigns (the last assignment block).
MergeProof(cur, dto) ==
    [url       |-> IF ~Falsy(dto.url) THEN Store(dto.url) ELSE cur.url,
     method    |-> Or(dto.method, cur.method),
     reference |-> Or(dto.reference, cur.reference),
     status    |-> Or(dto.status, Or(cur.status, "pending")),
     reason    |-> Or(dto.reason,
                      IF dto.status = "verified" THEN None ELSE cur.reason)]

IsAdminStatusChange(dto) == dto.status = "verified" \/ dto.status = "rejected"

\* An upload test that looks at the image only.
IsNewProofUploadAnyUrl(dto) == ~Falsy(dto.url)
IsNewProofUpload(dto) == ~Falsy(dto.url) /\ ~IsAdminStatusChange(dto)

\* An updatePaymentProof that pays the order on any update of the proof.
StatusAfterProofAnyDecision(dto, status) ==
    IF status = "esperando_pago" THEN "pagada" ELSE status

\* An updatePaymentProof that never touches the order status.
StatusAfterProofKept(dto, status) == status

\* The order status updatePaymentProof leaves in the loaded document.
StatusAfterProof(dto, status) ==
    IF dto.status = "verified" /\ status = "esperando_pago" THEN "pagada" ELSE status

\* dto = [url, method, reference, status, reason]; method is the DTO's "type".
StartUpdatePaymentProof(p, o, dto) ==
    /\ CanStart(p)
    /\ Begin(p, "upp_read", [IdleLoc EXCEPT !.op = "updatePaymentProof",
                                           !.caller = "http",
                                           !.orderId = o, !.proof = dto])
    /\ UNCHANGED <<stock, orders, orderItems, vtoTokens, notified, gatewayCalls,
                   webhookSecret, ledger>>

\* A request body taken as the DTO without the class's initializers.
UpdatePaymentProofDtoAsSent(body) == body

\* UpdatePaymentProofDto as the global ValidationPipe (transform: true) builds
\* it from a request body: the class initializer gives status 'pending' to a
\* body that has no status.
UpdatePaymentProofDto(body) ==
    [body EXCEPT !.status = IF @ = None THEN "pending" ELSE @]

\* PATCH /orders/:id/payment-proof
StartPatchPaymentProof(p, o, body) ==
    StartUpdatePaymentProof(p, o, UpdatePaymentProofDto(body))

\* orderModel.findById(id).populate('user')
UppRead(p) ==
    /\ pc[p] = "upp_read"
    /\ LET l == loc[p] IN
         IF ~Exists(l.orderId) THEN Throw(p, "NotFound")
         ELSE Goto(p, "upp_notify", [l EXCEPT !.snap = orders[l.orderId]])
    /\ UNCHANGED <<stock, orders, orderItems, vtoTokens, notified, gatewayCalls,
                   webhookSecret, ledger, ops>>

\* The notifications of updatePaymentProof, all sent before save().
ProofEvents(dto) ==
    (IF IsNewProofUpload(dto) THEN {"payment.proofReceived"} ELSE {})
    \cup (IF dto.status = "verified" THEN {"payment.approved"} ELSE {})
    \cup (IF dto.status = "rejected" THEN {"payment.rejected"} ELSE {})

UppNotify(p) ==
    /\ pc[p] = "upp_notify"
    /\ LET l == loc[p] IN
        /\ notified' = [notified EXCEPT ![l.orderId] =
               [e \in EventNames |-> IF e \in ProofEvents(l.proof) THEN @[e] + 1
                                                                   ELSE @[e]]]
        /\ Goto(p, "upp_save", l)
    /\ UNCHANGED <<stock, orders, orderItems, vtoTokens, gatewayCalls,
                   webhookSecret, ledger, ops>>

\* order.save() of updatePaymentProof
UppSave(p) ==
    /\ pc[p] = "upp_save"
    /\ LET l == loc[p]
           cur == orders[l.orderId]
       IN  /\ orders' = [orders EXCEPT ![l.orderId] =
                 [cur EXCEPT
                    !.paymentProof = SavePath(@, l.snap.paymentProof,
                                        MergeProof(l.snap.paymentProof, l.proof)),
                    !.status = SavePath(@, l.snap.status,
                                        StatusAfterProof(l.proof, l.snap.status))]]
           /\ Done(p, "ok")
    /\ UNCHANGED <<stock, orderItems, vtoTokens, notified, gatewayCalls,
                   webhookSecret, ledger, ops>>

\* order.save() of updatePaymentProof rejects (a database error).
UppSaveFails(p) ==
    /\ pc[p] = "upp_save"
    /\ Throw(p, "WriteError")
    /\ UNCHANGED <<stock, orders, orderItems, vtoTokens, notified, gatewayCalls,
                   webhookSecret, ledger, ops>>

\* ------------------------------------------------------------------ updateTracking
StartUpdateTracking(p, o, trackingNumber) ==
    /\ CanStart(p)
    /\ Begin(p, "ut_read", [IdleLoc EXCEPT !.op = "updateTracking", !.caller = "http",
                                          !.orderId = o, !.req = trackingNumber])
    /\ UNCHANGED <<stock, orders, orderItems, vtoTokens, notified, gatewayCalls,
                   webhookSecret, ledger>>

UtRead(p) ==
    /\ pc[p] = "ut_read"
    /\ LET l == loc[p] IN
         IF ~Exists(l.orderId) THEN Throw(p, "NotFound")
         ELSE Goto(p, "ut_save", [l EXCEPT !.snap = orders[l.orderId]])
    /\ UNCHANGED <<stock, orders, orderItems, vtoTokens, notified, gatewayCalls,
                   webhookSecret, ledger, ops>>

\* trackingNumber and status 'enviada' are assigned and saved.
UtSave(p) ==
    /\ pc[p] = "ut_save"
    /\ LET l == loc[p]
           cur == orders[l.orderId]
       IN  /\ orders' = [orders EXCEPT ![l.orderId] =
                 [cur EXCEPT
                    !.trackingNumber = SavePath(@, l.snap.trackingNumber, l.req),
                    !.status = SavePath(@, l.snap.status, "enviada")]]
           /\ Goto(p, "ut_after", l)
    /\ UNCHANGED <<stock, orderItems, vtoTokens, notified, gatewayCalls,
                   webhookSecret, ledger, ops>>

\* notifyOrderShipped, whatever the previous status was.
UtAfter(p) ==
    /\ pc[p] = "ut_after"
    /\ notified' = Notify(notified, loc[p].orderId, "order.shipped")
    /\ Done(p, "ok")
    /\ UNCHANGED <<stock, orders, orderItems, vtoTokens, gatewayCalls,
                   webhookSecret, ledger, ops>>

\* ------------------------------------------------------------------ archive / unarchive
StartArchive(p, o) ==
    /\ CanStart(p)
    /\ Begin(p, "ar_read", [IdleLoc EXCEPT !.op = "archiveOrder", !.caller = "http",
                                          !.orderId = o])
    /\ UNCHANGED <<stock, orders, orderItems, vtoTokens, notified, gatewayCalls,
                   webhookSecret, ledger>>

ArRead(p) ==
    /\ pc[p] = "ar_read"
    /\ LET l == loc[p] IN
         IF ~Exists(l.orderId) THEN Throw(p, "NotFound")
         ELSE Goto(p, "ar_save", [l EXCEPT !.snap = orders[l.orderId]])
    /\ UNCHANGED <<stock, orders, orderItems, vtoTokens, notified, gatewayCalls,
                   webhookSecret, ledger, ops>>

\* An archive that also returns the stock of the order's items, as a
\* cancellation does.
ArSaveCrediting(p) ==
    /\ pc[p] = "ar_save"
    /\ LET l == loc[p] IN
         /\ orders' = [orders EXCEPT ![l.orderId].status =
                          SavePath(@, l.snap.status, "archivada")]
         /\ stock' = [v \in Variants |-> stock[v] + debited[l.orderId][v]]
    /\ Done(p, "ok")
    /\ UNCHANGED <<orderItems, vtoTokens, notified, gatewayCalls,
                   webhookSecret, ledger, ops>>

\* order.status = 'archivada'; order.save()
ArSave(p) ==
    /\ pc[p] = "ar_save"
    /\ LET l == loc[p] IN
         orders' = [orders EXCEPT ![l.orderId].status =
                        SavePath(@, l.snap.status, "archivada")]
    /\ Done(p, "ok")
    /\ UNCHANGED <<stock, orderItems, vtoTokens, notified, gatewayCalls,
                   webhookSecret, ledger, ops>>

StartUnarchive(p, o) ==
    /\ CanStart(p)
    /\ Begin(p, "un_read", [IdleLoc EXCEPT !.op = "unarchiveOrder", !.caller = "http",
                                          !.orderId = o])
    /\ UNCHANGED <<stock, orders, orderItems, vtoTokens, notified, gatewayCalls,
                   webhookSecret, ledger>>

UnRead(p) ==
    /\ pc[p] = "un_read"
    /\ LET l == loc[p] IN
         IF ~Exists(l.orderId) THEN Throw(p, "NotFound")
         ELSE IF orders[l.orderId].status # "archivada"
           THEN Throw(p, "NotArchived")
         ELSE Goto(p, "un_save", [l EXCEPT !.snap = orders[l.orderId]])
    /\ UNCHANGED <<stock, orders, orderItems, vtoTokens, notified, gatewayCalls,
                   webhookSecret, ledger, ops>>

UnSave(p) ==
    /\ pc[p] = "un_save"
    /\ LET l == loc[p] IN
         orders' = [orders EXCEPT ![l.orderId].status =
                        SavePath(@, l.snap.status, "completada")]
    /\ Done(p, "ok")
    /\ UNCHANGED <<stock, orderItems, vtoTokens, notified, gatewayCalls,
                   webhookSecret, ledger, ops>>

\* ------------------------------------------------------------------ initiatePayment
\* The idempotency guard of initiatePayment.
AlreadyPaid(status) ==
    status = "pagada" \/ status = "en_produccion" \/ status = "enviada"
                      \/ status = "completada"

\* The keys of PaymentService.strategies.
Strategies == {"onvopay", "paypal"}

\* The guards with the manual short-circuit ahead of the idempotency guard.
InitiateGuardManualFirst(status, method) ==
    IF method = "manual" THEN "redirect:/store/my-orders"
    ELSE IF AlreadyPaid(status) THEN "Conflict"
    ELSE IF method \notin Strategies THEN "BadRequest"
    ELSE None

\* What initiatePayment answers before any gateway is called (None: it goes on
\* to the gateway).
InitiateGuard(status, method) ==
    IF AlreadyPaid(status) THEN "Conflict"
    ELSE IF method \notin Strategies /\ method # "manual" THEN "BadRequest"
    ELSE IF method = "manual" THEN "redirect:/store/my-orders"
    ELSE None

StartInitiatePayment(p, o, method) ==
    /\ CanStart(p)
    /\ Begin(p, "ip_read", [IdleLoc EXCEPT !.op = "initiatePayment", !.caller = "http",
                                          !.orderId = o, !.req = method])
    /\ UNCHANGED <<stock, orders, orderItems, vtoTokens, notified, gatewayCalls,
                   webhookSecret, ledger>>

\* ordersService.findOne and the guards.
IpRead(p) ==
    /\ pc[p] = "ip_read"
    /\ LET l == loc[p] IN
         IF ~Exists(l.orderId) THEN Return(p, "NotFound")
         ELSE LET g == InitiateGuard(orders[l.orderId].status, l.req) IN
              IF g # None THEN Return(p, g)
              ELSE Goto(p, "ip_gateway", [l EXCEPT !.snap = orders[l.orderId],
                                                   !.itemsData = ItemsOf(l.orderId)])
    /\ UNCHANGED <<stock, orders, orderItems, vtoTokens, notified, gatewayCalls,
                   webhookSecret, ledger, ops>>

\* gateway.initiatePayment: Onvopay answers with a checkout session or with
\* success: false (no key, an HTTP error, a failed fetch); the PayPal strategy
\* answers with a redirect, or throws when the PayPal API call fails.
GatewayAnswers(method) ==
    IF method = "onvopay" THEN {"success:true", "success:false"}
    ELSE {"success:true", "Error"}

\* An initiatePayment that marks the order paid as soon as the gateway accepts.
IpGatewayMarkingPaid(p) ==
    /\ pc[p] = "ip_gateway"
    /\ gatewayCalls' = [gatewayCalls EXCEPT ![loc[p].orderId] = @ + 1]
    /\ \E r \in GatewayAnswers(loc[p].req) :
          /\ Return(p, r)
          /\ orders' = IF r = "success:true"
                       THEN [orders EXCEPT ![loc[p].orderId].status = "pagada"]
                       ELSE orders
    /\ UNCHANGED <<stock, orderItems, vtoTokens, notified,
                   webhookSecret, ledger, ops>>

IpGateway(p) ==
    /\ pc[p] = "ip_gateway"
    /\ gatewayCalls' = [gatewayCalls EXCEPT ![loc[p].orderId] = @ + 1]
    /\ \E r \in GatewayAnswers(loc[p].req) : Return(p, r)
    /\ UNCHANGED <<stock, orders, orderItems, vtoTokens, notified,
                   webhookSecret, ledger, ops>>

\* ------------------------------------------------------------------ handleWebhook
\* A webhook body, for both gateways:
\*   present          FALSE for an empty body
\*   type             Onvopay's type/event, PayPal's event_type
\*   orderId          metadata.orderId, resp. purchase_units[0].reference_id
\*                    (0: there is none)
\*   status, paymentStatus, paymentIntentId, id   fields of the Onvopay data,
\*                    id also PayPal's resource.id
\*   errorMessage     data.error.message, resp. status_details.reason
NoPayload == [present |-> FALSE, type |-> None, orderId |-> 0, status |-> None,
              paymentStatus |-> None, paymentIntentId |-> None, id |-> None,
              errorMessage |-> None]

\* A verification that takes every non-empty body, whatever the signature.
OnvopayVerifyAnySignature(payload, signature) == payload.present

\* OnvopayStrategy.verifyWebhook and PaypalStrategy.verifyWebhook
OnvopayVerifyWebhook(payload, signature) ==
    IF ~payload.present THEN FALSE
    ELSE IF webhookSecret = None THEN TRUE
    ELSE signature = webhookSecret

PaypalVerifyWebhook(payload, signature) == TRUE

VerifyWebhook(gateway, payload, signature) ==
    IF gateway = "onvopay" THEN OnvopayVerifyWebhook(payload, signature)
    ELSE PaypalVerifyWebhook(payload, signature)

IsSuccess(data) ==
    \/ data.type = "checkout-session.succeeded"
    \/ data.type = "payment-intent.succeeded"
    \/ data.type = "payment_intent.succeeded"
    \/ data.status = "succeeded"
    \/ data.paymentStatus = "paid"

IsFailed(data) ==
    \/ data.type = "payment-intent.failed"
    \/ data.type = "payment_intent.failed"
    \/ data.status = "failed"
    \/ data.status = "requires_payment_method"

IsDeferred(data) == data.type = "payment-intent.deferred"

ProofDto(method, reference, status, reason) ==
    [url |-> None, method |-> method, reference |-> reference,
     status |-> status, reason |-> reason]

\* What the handler does with a verified body: [do, orderId, next, proof] where
\* do is the first service call ("updateStatus" to 'pagada', "updatePaymentProof")
\* or the acknowledgment it returns at once.
OnvopayPlan(data) ==
    IF data.orderId = 0
      THEN [do |-> AckIgnored, next |-> None, proof |-> NoProof]
    ELSE IF IsSuccess(data)
      THEN LET onvopayId == Or(data.paymentIntentId, Or(data.id, "")) IN
           [do |-> "updateStatus",
            next |-> IF ~Falsy(onvopayId) THEN "updatePaymentProof" ELSE None,
            proof |-> ProofDto("onvopay", onvopayId, "verified", None)]
    ELSE IF IsFailed(data)
      THEN [do |-> "updatePaymentProof", next |-> None,
            proof |-> ProofDto("onvopay", Or(data.id, ""), "rejected",
                               Or(data.errorMessage, "Payment failed"))]
    ELSE IF IsDeferred(data)
      THEN [do |-> "updatePaymentProof", next |-> None,
            proof |-> ProofDto("onvopay", Or(data.paymentIntentId, Or(data.id, "")),
                               "pending", "SINPE pendiente de aprobacion")]
    ELSE [do |-> AckIgnored, next |-> None, proof |-> NoProof]

PaypalPlan(payload) ==
    IF ~payload.present
      THEN [do |-> AckError, next |-> None, proof |-> NoProof]
    ELSE IF payload.orderId = 0
      THEN [do |-> AckIgnored, next |-> None, proof |-> NoProof]
    ELSE IF payload.type = "CHECKOUT.ORDER.APPROVED"
      THEN [do |-> AckProcessed, next |-> None, proof |-> NoProof]
    ELSE IF payload.type = "PAYMENT.CAPTURE.COMPLETED"
      THEN [do |-> "updateStatus", next |-> "updatePaymentProof",
            proof |-> ProofDto("paypal", payload.id, "verified", None)]
    ELSE IF payload.type = "PAYMENT.CAPTURE.DENIED"
      THEN [do |-> "updatePaymentProof", next |-> None,
            proof |-> ProofDto("paypal", payload.id, "rejected",
                               Or(payload.errorMessage, "Payment capture denied"))]
    ELSE [do |-> AckIgnored, next |-> None, proof |-> NoProof]

\* Names every JavaScript object inherits from Object.prototype: a lookup of
\* one of them in the strategies object yields a value that is no strategy.
InheritedKeys == {"constructor"}

\* this.strategies[gateway]: the strategy's name, "inherited" for an inherited
\* member, None for undefined.
StrategyLookup(gateway) ==
    IF gateway \in Strategies THEN gateway
    ELSE IF gateway \in InheritedKeys THEN "inherited"
    ELSE None

\* req = [gateway, payload, signature]
StartHandleWebhook(p, req) ==
    /\ CanStart(p)
    /\ Begin(p, "hw_verify", [IdleLoc EXCEPT !.op = "handleWebhook",
                                            !.caller = req.gateway, !.req = req])
    /\ UNCHANGED <<stock, orders, orderItems, vtoTokens, notified, gatewayCalls,
                   webhookSecret, ledger>>

\* The strategy lookup, verifyWebhook, and the classification of the event. The
\* lookup and the verifyWebhook call are outside the handler's try block: an
\* inherited member is truthy and has no verifyWebhook, so the call throws.
HwVerify(p) ==
    /\ pc[p] = "hw_verify"
    /\ LET l == loc[p]
           r == l.req
       IN  IF StrategyLookup(r.gateway) = None THEN Return(p, AckFalse)
           ELSE IF StrategyLookup(r.gateway) = "inherited"
             THEN Return(p, "TypeError")
           ELSE IF ~VerifyWebhook(r.gateway, r.payload, r.signature)
             THEN Return(p, AckFalse)
           ELSE LET plan == IF r.gateway = "paypal" THEN PaypalPlan(r.payload)
                                                    ELSE OnvopayPlan(r.payload)
                IN  IF plan.do = "updateStatus"
                      THEN Goto(p, "us_read",
                                [l EXCEPT !.orderId = r.payload.orderId,
                                          !.status = "pagada",
                                          !.next = plan.next,
                                          !.proof = plan.proof])
                    ELSE IF plan.do = "updatePaymentProof"
                      THEN Goto(p, "upp_read",
                                [l EXCEPT !.orderId = r.payload.orderId,
                                          !.proof = plan.proof])
                    ELSE Return(p, plan.do)
    /\ UNCHANGED <<stock, orders, orderItems, vtoTokens, notified, gatewayCalls,
                   webhookSecret, ledger, ops>>

\* ------------------------------------------------------------------ Telegram
TelegramActions == {"approved", "rejected", "move_to_produccion",
                    "move_to_enviada", "move_to_completada"}

\* TelegramController.handleWebhook for a callback query with this action.
StartTelegram(p, action, o) ==
    /\ CanStart(p)
    /\ action \in TelegramActions
    /\ LET l == [IdleLoc EXCEPT !.op = "telegram", !.caller = "telegram",
                                !.orderId = o, !.req = action]
       IN  CASE action = "approved" ->
                  Begin(p, "upp_read",
                        [l EXCEPT !.proof = ProofDto(None, None, "verified", None)])
             [] action = "rejected" ->
                  Begin(p, "upp_read",
                        [l EXCEPT !.proof = ProofDto(None, None, "rejected",
                                       "Rechazado por admin desde Telegram")])
             [] action = "move_to_produccion" ->
                  Begin(p, "us_read", [l EXCEPT !.status = "en_produccion"])
             [] action = "move_to_enviada" ->
                  Begin(p, "us_read", [l EXCEPT !.status = "enviada"])
             [] action = "move_to_completada" ->
                  Begin(p, "us_read", [l EXCEPT !.status = "completada"])
    /\ UNCHANGED <<stock, orders, orderItems, vtoTokens, notified, gatewayCalls,
                   webhookSecret, ledger>>

\* ------------------------------------------------------------------ steps
CreateSteps(p) ==
    \/ CreateValidate(p)
    \/ CreatePersist(p)
    \/ CreateItem(p)
    \/ CreateDebit(p)
    \/ CreateNotify(p)

CancelSteps(p) ==
    \/ CancelRead(p)
    \/ CancelItems(p)
    \/ CancelCredit(p)
    \/ CancelSave(p)

UpdateStatusSteps(p) == UsRead(p) \/ UsSave(p) \/ UsAfter(p)

UpdatePaymentProofSteps(p) == UppRead(p) \/ UppNotify(p) \/ UppSave(p)

UpdateTrackingSteps(p) == UtRead(p) \/ UtSave(p) \/ UtAfter(p)

ArchiveSteps(p) == ArRead(p) \/ ArSave(p) \/ UnRead(p) \/ UnSave(p)

InitiatePaymentSteps(p) == IpRead(p) \/ IpGateway(p)

\* ------------------------------------------------------------------ requests
Item(v, q) == [variantId |-> v, quantity |-> q]

CreateDto(items, user, orderType) ==
    [items |-> items, user |-> user, orderType |-> orderType]

\* Guest checkouts of one line, of two lines of different variants, and of a
\* variant without price or without record.
StockItemLists ==
    {<<Item(v, q)>> : v \in {"v1", "v3", UnknownVariant}, q \in 1..MaxQty}
    \cup {<<Item("v1", 1), Item("v2", MaxQty)>>}

StockDtos == {CreateDto(its, None, None) : its \in StockItemLists}

\* ------------------------------------------------------------------ SpecStock
\* Concurrent create and cancelOrder requests.
NextStock ==
    \E p \in Procs :
        \/ \E dto \in StockDtos : StartCreate(p, dto)
        \/ \E o \in OrderIds : StartCancel(p, o)
        \/ CreateSteps(p)
        \/ CancelSteps(p)

InitStock == Init /\ webhookSecret = None

SpecStock == InitStock /\ [][NextStock]_vars

\* ------------------------------------------------------------------ SpecRoundTrip
\* One client at a time: creates, each possibly followed by the cancellation of
\* the order just created, with nothing in between.
RoundTripItemLists ==
    LET lines == {Item(v, q) : v \in Priced, q \in 1..MaxQty}
    IN  {<<a>> : a \in lines} \cup {<<a, b>> : a \in lines, b \in lines}

RoundTripDtos == {CreateDto(its, None, None) : its \in RoundTripItemLists}

NextRoundTrip ==
    \/ \E dto \in RoundTripDtos : StartCreate("p1", dto)
    \/ (Len(orders) > 0 /\ StartCancel("p1", Len(orders)))
    \/ CreateSteps("p1")
    \/ CancelSteps("p1")

SpecRoundTrip == InitStock /\ [][NextRoundTrip]_vars

\* ------------------------------------------------------------------ SpecTokens
\* Orders of a registered user and of a guest, and concurrent updateStatus
\* requests (the orders controller's and Telegram's).
TokenDtos == {CreateDto(<<Item("v1", 1)>>, u, None) : u \in Users \cup {None}}

NextTokens ==
    \E p \in Procs :
        \/ \E dto \in TokenDtos : StartCreate(p, dto)
        \/ \E o \in OrderIds, st \in Statuses : StartUpdateStatus(p, o, st)
        \/ \E o \in OrderIds : StartTelegram(p, "move_to_completada", o)
        \/ CreateSteps(p)
        \/ UpdateStatusSteps(p)

SpecTokens == InitStock /\ [][NextTokens]_vars

\* ------------------------------------------------------------------ SpecWebhook
\* One guest order, and concurrent gateway webhook deliveries, status changes
\* and Telegram approvals for it.
PayDtos == {CreateDto(<<Item("v1", 1)>>, None, None)}

Event(type, o, id) ==
    [NoPayload EXCEPT !.present = TRUE, !.type = type, !.orderId = o, !.id = id]

WebhookReq(gateway, payload, signature) ==
    [gateway |-> gateway, payload |-> payload, signature |-> signature]

OnvopayPayloads ==
    {Event("checkout-session.succeeded", 1, "tx1"),
     Event("checkout-session.succeeded", 1, None),
     Event("checkout-session.succeeded", MaxOrders, "tx1"),
     Event("payment-intent.failed", 1, "tx1"),
     Event("payment-intent.deferred", 1, "tx1"),
     Event("checkout-session.created", 1, "tx1"),
     Event("checkout-session.succeeded", 0, "tx1"),
     NoPayload}

PaypalPayloads ==
    {Event("PAYMENT.CAPTURE.COMPLETED", 1, "cap1"),
     Event("PAYMENT.CAPTURE.DENIED", 1, "cap1"),
     Event("CHECKOUT.ORDER.APPROVED", 1, "cap1")}

WebhookRequests ==
    {WebhookReq("onvopay", pl, sig) : pl \in OnvopayPayloads,
                                      sig \in {"s3cr3t", "forged"}}
    \cup {WebhookReq("paypal", pl, None) : pl \in PaypalPayloads}
    \cup {WebhookReq(g, Event("checkout-session.succeeded", 1, "tx1"), "s3cr3t") :
              g \in {"stripe"} \cup InheritedKeys}

NextWebhook ==
    \E p \in Procs :
        \/ \E dto \in PayDtos : OrdersClaimed = 0 /\ StartCreate(p, dto)
        \/ \E req \in WebhookRequests : StartHandleWebhook(p, req)
        \/ \E st \in {"en_produccion", "completada"} : StartUpdateStatus(p, 1, st)
        \/ StartTelegram(p, "approved", 1)
        \/ CreateSteps(p)
        \/ HwVerify(p)
        \/ UpdateStatusSteps(p)
        \/ UpdatePaymentProofSteps(p)

SpecWebhook == Init /\ [][NextWebhook]_vars

\* ------------------------------------------------------------------ SpecReplay
\* One guest order and deliveries of one and the same succeeded Onvopay event
\* for it, correctly signed.
ReplayedDelivery ==
    WebhookReq("onvopay", Event("checkout-session.succeeded", 1, "tx1"), "s3cr3t")

NextReplay ==
    \E p \in Procs :
        \/ \E dto \in PayDtos : OrdersClaimed = 0 /\ StartCreate(p, dto)
        \/ StartHandleWebhook(p, ReplayedDelivery)
        \/ CreateSteps(p)
        \/ HwVerify(p)
        \/ UpdateStatusSteps(p)
        \/ UpdatePaymentProofSteps(p)

SpecReplay == Init /\ [][NextReplay]_vars

\* ------------------------------------------------------------------ SpecInitiate
\* One guest order, status changes, and initiatePayment requests.
PaymentMethods == {"onvopay", "paypal", "manual", "stripe"}

NextInitiate ==
    \E p \in Procs :
        \/ \E dto \in PayDtos : OrdersClaimed = 0 /\ StartCreate(p, dto)
        \/ \E st \in Statuses : StartUpdateStatus(p, 1, st)
        \/ \E o \in OrderIds, m \in PaymentMethods : StartInitiatePayment(p, o, m)
        \/ CreateSteps(p)
        \/ UpdateStatusSteps(p)
        \/ InitiatePaymentSteps(p)

SpecInitiate == InitStock /\ [][NextInitiate]_vars

\* ------------------------------------------------------------------ SpecLifecycle
\* Orders of one unit, and concurrent requests of the orders controller on
\* them: cancel, status change, tracking, archive and unarchive.
NextLifecycle ==
    \E p \in Procs :
        \/ \E dto \in PayDtos : StartCreate(p, dto)
        \/ \E o \in OrderIds :
              \/ StartCancel(p, o)
              \/ StartUpdateStatus(p, o, "completada")
              \/ StartUpdateTracking(p, o, "TRK1")
              \/ StartArchive(p, o)
              \/ StartUnarchive(p, o)
        \/ CreateSteps(p)
        \/ CancelSteps(p)
        \/ UpdateStatusSteps(p)
        \/ UpdateTrackingSteps(p)
        \/ ArchiveSteps(p)

SpecLifecycle == InitStock /\ [][NextLifecycle]_vars

\* ------------------------------------------------------------------ SpecProof
\* One guest order and one client at a time: proof uploads through the orders
\* controller (the DTO's status defaults to 'pending'), and reviews of an
\* uploaded proof of an order awaiting payment, by Telegram or by the orders
\* controller.
SubmitDtos ==
    {[url |-> u, method |-> m, reference |-> r, status |-> "pending",
      reason |-> None] : u \in {"img1", "img2"}, m \in {"transfer", "sinpe"},
                         r \in {None, "ref1"}}

ReviewDtos ==
    {ProofDto(None, None, "verified", None),
     ProofDto(None, None, "rejected", "comprobante ilegible")}

\* The order awaits payment and holds an uploaded proof.
Reviewable(o) ==
    /\ Exists(o)
    /\ orders[o].status = "esperando_pago"
    /\ orders[o].paymentProof.url # None

NextProof ==
    \/ \E dto \in PayDtos : OrdersClaimed = 0 /\ StartCreate("p1", dto)
    \/ \E dto \in SubmitDtos :
          /\ Exists(1) /\ orders[1].status = "esperando_pago"
          /\ StartUpdatePaymentProof("p1", 1, dto)
    \/ \E dto \in ReviewDtos : Reviewable(1) /\ StartUpdatePaymentProof("p1", 1, dto)
    \/ \E a \in {"approved", "rejected"} : Reviewable(1) /\ StartTelegram("p1", a, 1)
    \/ CreateSteps("p1")
    \/ UpdatePaymentProofSteps("p1")

SpecProof == InitStock /\ [][NextProof]_vars

\* ------------------------------------------------------------------ SpecRace
\* One guest order and two writers to it, one on each process, running
\* concurrently: gateway webhook deliveries and Telegram actions (approval,
\* rejection, status changes).
RaceDeliveries ==
    {WebhookReq("onvopay", Event("checkout-session.succeeded", 1, "tx1"), "s3cr3t"),
     WebhookReq("onvopay", Event("payment-intent.failed", 1, "tx2"), "s3cr3t"),
     WebhookReq("onvopay", Event("payment-intent.deferred", 1, "tx3"), "s3cr3t"),
     WebhookReq("paypal", Event("PAYMENT.CAPTURE.COMPLETED", 1, "cap1"), None),
     WebhookReq("paypal", Event("PAYMENT.CAPTURE.DENIED", 1, "cap2"), None)}

NextRace ==
    \E p \in Procs :
        \/ \E dto \in PayDtos : OrdersClaimed = 0 /\ StartCreate(p, dto)
        \/ \E req \in RaceDeliveries : Exists(1) /\ StartHandleWebhook(p, req)
        \/ \E a \in TelegramActions : Exists(1) /\ StartTelegram(p, a, 1)
        \/ CreateSteps(p)
        \/ HwVerify(p)
        \/ UpdateStatusSteps(p)
        \/ UpdatePaymentProofSteps(p)

SpecRace == Init /\ [][NextRace]_vars

\* ------------------------------------------------------------------ SpecCreateFailure
\* One client at a time: creates of one or two lines whose item writes and
\* stock debits may fail.
NextCreateFailure ==
    \/ \E dto \in RoundTripDtos : StartCreate("p1", dto)
    \/ CreateSteps("p1")
    \/ CreateItemFails("p1")
    \/ CreateDebitFails("p1")

SpecCreateFailure == InitStock /\ [][NextCreateFailure]_vars

\* ------------------------------------------------------------------ SpecAck
\* One guest order and concurrent webhook deliveries, for it and for an order
\* that does not exist, whose saves may fail.
VerifiedDeliveries ==
    {r \in WebhookRequests :
        /\ r.gateway \in Strategies
        /\ VerifyWebhook(r.gateway, r.payload, r.signature)}

NextAck ==
    \E p \in Procs :
        \/ \E dto \in PayDtos : OrdersClaimed = 0 /\ StartCreate(p, dto)
        \/ \E req \in VerifiedDeliveries : StartHandleWebhook(p, req)
        \/ CreateSteps(p)
        \/ HwVerify(p)
        \/ UpdateStatusSteps(p)
        \/ UpdatePaymentProofSteps(p)
        \/ UsSaveFails(p)
        \/ UppSaveFails(p)

SpecAck == Init /\ [][NextAck]_vars

\* ------------------------------------------------------------------ SpecSettle
\* One request at a time: an order, proofs uploaded and reviewed for it, and
\* gateway deliveries that report a payment, with and without a transaction id.
SettleDeliveries ==
    {WebhookReq("onvopay", Event("checkout-session.succeeded", 1, id), None) :
         id \in {"tx1", None}}
    \cup {WebhookReq("onvopay",
                     [Event("checkout-session.updated", 1, id)
                        EXCEPT !.paymentStatus = "paid"], None) :
              id \in {"tx2", None}}
    \cup {WebhookReq("paypal", Event("PAYMENT.CAPTURE.COMPLETED", 1, id), None) :
              id \in {"cap1", None}}

NextSettle ==
    \/ \E dto \in PayDtos : OrdersClaimed = 0 /\ StartCreate("p1", dto)
    \/ \E dto \in SubmitDtos \cup ReviewDtos :
          /\ Exists(1) /\ orders[1].status = "esperando_pago"
          /\ StartUpdatePaymentProof("p1", 1, dto)
    \/ \E req \in SettleDeliveries : Exists(1) /\ StartHandleWebhook("p1", req)
    \/ CreateSteps("p1")
    \/ HwVerify("p1")
    \/ UpdateStatusSteps("p1")
    \/ UpdatePaymentProofSteps("p1")

SpecSettle == InitStock /\ [][NextSettle]_vars

\* ------------------------------------------------------------------ SpecSubmit
\* One request at a time: an order and PATCH /orders/:id/payment-proof requests
\* with every combination of supplied fields and review status.
ProofBodies ==
    [url : {None, "img1", "img2"}, method : {None, "sinpe"},
     reference : {None, "ref1"}, status : {None, "pending", "verified", "rejected"},
     reason : {None, "ilegible"}]

NextSubmit ==
    \/ \E dto \in PayDtos : OrdersClaimed = 0 /\ StartCreate("p1", dto)
    \/ \E body \in ProofBodies : Exists(1) /\ StartPatchPaymentProof("p1", 1, body)
    \/ CreateSteps("p1")
    \/ UpdatePaymentProofSteps("p1")

SpecSubmit == InitStock /\ [][NextSubmit]_vars

\* ------------------------------------------------------------------ SpecFulfil
\* One request at a time: an order, its proof uploaded and reviewed, and the
\* status moved by the orders controller, the tracking route and Telegram.
FulfilBodies ==
    {[NoProof EXCEPT !.url = "img1", !.method = "sinpe"],
     [NoProof EXCEPT !.status = "verified"],
     [NoProof EXCEPT !.status = "rejected", !.reason = "ilegible"]}

NextFulfil ==
    \/ \E dto \in PayDtos : OrdersClaimed = 0 /\ StartCreate("p1", dto)
    \/ \E body \in FulfilBodies : Exists(1) /\ StartPatchPaymentProof("p1", 1, body)
    \/ \E st \in Statuses : Exists(1) /\ StartUpdateStatus("p1", 1, st)
    \/ (Exists(1) /\ StartUpdateTracking("p1", 1, "TRK1"))
    \/ \E a \in TelegramActions : Exists(1) /\ StartTelegram("p1", a, 1)
    \/ CreateSteps("p1")
    \/ UpdatePaymentProofSteps("p1")
    \/ UpdateStatusSteps("p1")
    \/ UpdateTrackingSteps("p1")

SpecFulfil == InitStock /\ [][NextFulfil]_vars

\* ------------------------------------------------------------------ SpecQuantity
\* One client at a time: creates whose lines carry any number the DTO's
\* IsNumber accepts as quantity, zero and negative ones included.
QuantityItemLists ==
    {<<Item(v, q)>> : v \in Priced, q \in (-1)..MaxQty}
    \cup {<<Item("v1", 1), Item("v2", q)>> : q \in (-1)..MaxQty}

QuantityDtos == {CreateDto(its, None, None) : its \in QuantityItemLists}

NextQuantity ==
    \/ \E dto \in QuantityDtos : StartCreate("p1", dto)
    \/ CreateSteps("p1")

SpecQuantity == InitStock /\ [][NextQuantity]_vars

\* ------------------------------------------------------------------ SpecCancelled
\* One request at a time: an order, its cancellation, and everything that can
\* move an order afterwards.
NextCancelled ==
    \/ \E dto \in PayDtos : OrdersClaimed = 0 /\ StartCreate("p1", dto)
    \/ (Exists(1) /\ StartCancel("p1", 1))
    \/ (Exists(1) /\ StartArchive("p1", 1))
    \/ (Exists(1) /\ StartUnarchive("p1", 1))
    \/ \E st \in PaidStatuses : Exists(1) /\ StartUpdateStatus("p1", 1, st)
    \/ (Exists(1) /\ StartTelegram("p1", "approved", 1))
    \/ (Exists(1) /\ StartHandleWebhook("p1",
            WebhookReq("onvopay", Event("checkout-session.succeeded", 1, "tx1"),
                       None)))
    \/ CreateSteps("p1")
    \/ CancelSteps("p1")
    \/ ArchiveSteps("p1")
    \/ HwVerify("p1")
    \/ UpdateStatusSteps("p1")
    \/ UpdatePaymentProofSteps("p1")

SpecCancelled == InitStock /\ [][NextCancelled]_vars

\* ------------------------------------------------------------------ properties
RECURSIVE SumOver(_, _)
\* The sum of f[x] over the finite set S.
SumOver(f, S) ==
    IF S = {} THEN 0
    ELSE LET x == CHOOSE y \in S : TRUE IN f[x] + SumOver(f, S \ {x})

\* No handler is running.
Quiescent == \A p \in Procs : pc[p] = "idle"

\* Process p takes this step.
Acted(p) == pc'[p] # pc[p] \/ loc'[p] # loc[p]

\* The stock of v before any order: what is there, plus what was debited, minus
\* what was credited.
OriginalStock(v) ==
    stock[v] + SumOver([o \in OrderIds |-> debited[o][v]], OrderIds)
             - SumOver([o \in OrderIds |-> credited[o][v]], OrderIds)

\* The credits cancellations returned to v.
CancellationCredits(v) == SumOver([o \in OrderIds |-> credited[o][v]], OrderIds)

\* The quantity of v in the items of orders that are not cancelled.
HeldBy(v) ==
    LET idx == {i \in 1..Len(orderItems) :
                    /\ orderItems[i].variantId = v
                    /\ orders[orderItems[i].orderId].status # "cancelada"}
    IN  SumOver([i \in 1..Len(orderItems) |-> orderItems[i].quantity], idx)

\* C1: for every variant, stock >= 0 in every reachable state, under any
\* interleaving of the steps of concurrent create and cancelOrder requests.
C1_StockNonNegative == \A v \in Variants : stock[v] >= 0

\* C4: the stock an order debited is credited back at most once: once all
\* requests have returned, the quantity credited to a variant for an order does
\* not exceed the quantity the order debited.
C4_CreditedAtMostOnce ==
    Quiescent => \A o \in OrderIds : \A v \in Variants :
                     credited[o][v] <= debited[o][v]

\* C7: for every variant, the quantities held by non-cancelled orders never
\* exceed the original stock plus the credits returned by cancellations (stated
\* for the states in which no request is running).
C7_HeldWithinStock ==
    Quiescent => \A v \in Variants :
                     HeldBy(v) <= OriginalStock(v) + CancellationCredits(v)

ValidationErrors == {"NotFound", "OutOfStock", "PriceUnavailable"}

\* C8: an iteration of create's validation loop answers OutOfStock exactly when
\* the requested quantity of an existing variant exceeds its current stock (a
\* line that fits, of a priced variant, is accepted); a create fails validation
\* only in that loop, before it has persisted an order, and the failing step
\* changes no order, no order item and no stock.
C8_CreateValidation ==
    [][\A p \in Procs :
        /\ (pc[p] = "create_validate" /\ Acted(p)) =>
              LET item == loc[p].req.items[loc[p].idx] IN
              /\ (item.variantId \in Variants
                    /\ item.quantity > stock[item.variantId])
                   => (pc'[p] = "idle" /\ loc'[p].result = "OutOfStock")
              /\ (item.variantId \in Priced
                    /\ item.quantity <= stock[item.variantId])
                   => loc'[p].result \notin ValidationErrors
        /\ (Acted(p) /\ loc'[p].op = "create"
              /\ loc'[p].result \in ValidationErrors) =>
              /\ pc[p] = "create_validate"
              /\ loc[p].orderId = 0
              /\ UNCHANGED <<orders, orderItems, stock>>
      ]_vars

\* Scenario A has happened: 2 units of a variant with stock 2 were ordered, the
\* stock is 0, and a further create was answered OutOfStock.
C8_Witness ==
    \E p \in Procs :
        /\ pc[p] = "idle" /\ loc[p].op = "create" /\ loc[p].result = "OutOfStock"
        /\ loc[p].req.items = <<Item("v1", 1)>>
        /\ stock["v1"] = 0 /\ stockAtCreate[1]["v1"] = 2
        /\ Len(orders) = 1 /\ Len(orderItems) = 1
        /\ orderItems[1].quantity = 2

\* C6: when cancelOrder has cancelled an order, with no other operation between
\* the order's creation and its cancellation, the stock of every variant is
\* what it was before the create.
C6_RoundTrip ==
    \A p \in Procs :
        (pc[p] = "idle" /\ loc[p].op = "cancelOrder" /\ loc[p].result = "cancelled")
            => stock = stockAtCreate[loc[p].orderId]

\* An order of two variants, one of them in a quantity above 1, was created and
\* cancelled.
C6_Witness ==
    \E p \in Procs :
        /\ pc[p] = "idle" /\ loc[p].op = "cancelOrder" /\ loc[p].result = "cancelled"
        /\ debited[loc[p].orderId]["v1"] = 2
        /\ debited[loc[p].orderId]["v2"] = 1
        /\ credited[loc[p].orderId] = debited[loc[p].orderId]

\* C5: the token credit is granted at most once per order, and never for a
\* guest order.
C5_GrantedAtMostOnce ==
    \A o \in OrderIds :
        /\ granted[o] <= 1
        /\ (Exists(o) /\ orders[o].user = None) => granted[o] = 0

\* The position of a status on the happy path (-1: off the path).
HappyRank(status) ==
    CASE status = "esperando_pago" -> 0
      [] status = "pagada"         -> 1
      [] status = "en_produccion"  -> 2
      [] status = "enviada"        -> 3
      [] status = "completada"     -> 4
      [] OTHER                     -> -1

\* The request is a reconciliation: a gateway webhook, or a proof approval (by
\* Telegram or by the orders controller).
IsReconciliation(l) ==
    \/ l.op = "handleWebhook"
    \/ (l.op \in {"telegram", "updatePaymentProof"} /\ l.proof.status = "verified")

\* C2: a step of a reconciliation request sets an order to pagada only from
\* esperando_pago, and never moves an order that is paid or later to an earlier
\* status of the happy path.
C2_ReconciliationMonotonic ==
    [][\A p \in Procs : (Acted(p) /\ IsReconciliation(loc[p])) =>
          \A o \in 1..Len(orders) :
              LET before == orders[o].status
                  after  == orders'[o].status
              IN  /\ (after = "pagada" /\ before # "pagada")
                        => before = "esperando_pago"
                  /\ (before \in PaidStatuses /\ HappyRank(after) >= 0)
                        => HappyRank(after) >= HappyRank(before)
      ]_vars

\* C3: when every webhook delivery is the same succeeded event for the same
\* order (a replay), payment.approved is notified at most once for that order,
\* however many deliveries were processed.
C3_ReplayIdempotent ==
    \A o \in OrderIds : notified[o]["payment.approved"] <= 1

\* C9: initiatePayment on an order that is paid or later answers with the
\* conflict error for every method and ends there, with no gateway call.
C9_AlreadyPaidConflict ==
    [][\A p \in Procs :
          (/\ pc[p] = "ip_read" /\ Acted(p)
           /\ Exists(loc[p].orderId)
           /\ orders[loc[p].orderId].status \in PaidStatuses)
          => /\ pc'[p] = "idle"
             /\ loc'[p].result = "Conflict"
             /\ gatewayCalls' = gatewayCalls
      ]_vars

\* initiatePayment with method manual was refused on a completed order, and no
\* gateway was ever called for it.
C9_Witness ==
    \E p \in Procs :
        /\ pc[p] = "idle" /\ loc[p].op = "initiatePayment"
        /\ loc[p].req = "manual" /\ loc[p].result = "Conflict"
        /\ orders[loc[p].orderId].status = "completada"
        /\ gatewayCalls[loc[p].orderId] = 0

\* The delivery must be refused: no strategy has this name, or it is an Onvopay
\* delivery with an empty body or with a signature that is not the configured
\* secret.
InvalidDelivery(req) ==
    \/ req.gateway \notin {"onvopay", "paypal"}
    \/ /\ req.gateway = "onvopay"
       /\ \/ ~req.payload.present
          \/ (webhookSecret # None /\ req.signature # webhookSecret)

\* C10: handleWebhook for an unknown gateway or with a body that fails
\* verification answers received: false and ends, with every order and every
\* notification count unchanged.
C10_RejectedWebhook ==
    [][\A p \in Procs :
          (pc[p] = "hw_verify" /\ Acted(p) /\ InvalidDelivery(loc[p].req))
          => /\ pc'[p] = "idle"
             /\ loc'[p].result = AckFalse
             /\ orders' = orders
             /\ notified' = notified
      ]_vars

\* A succeeded event for an order awaiting payment, signed with a wrong secret,
\* was refused and the order still awaits payment.
C10_Witness ==
    \E p \in Procs :
        /\ pc[p] = "idle" /\ loc[p].op = "handleWebhook"
        /\ loc[p].result = AckFalse
        /\ loc[p].req.gateway = "onvopay"
        /\ loc[p].req.signature = "forged" /\ webhookSecret = "s3cr3t"
        /\ IsSuccess(loc[p].req.payload)
        /\ loc[p].req.payload.orderId = 1
        /\ Len(orders) = 1 /\ orders[1].status = "esperando_pago"
        /\ notified[1]["payment.approved"] = 0

\* C11: with one client at a time, an upload notifies payment.proofReceived and
\* not payment.approved and leaves the order awaiting payment with a pending
\* proof; the verified review that follows it leaves the order pagada with a
\* verified proof that still holds the uploaded file, and payment.approved has
\* then been notified exactly once for the order.
C11_SubmitThenApprove ==
    [][\A p \in Procs :
         LET l == loc[p]
             o == l.orderId
         IN
         /\ (pc[p] = "upp_notify" /\ Acted(p) /\ l.proof \in SubmitDtos) =>
               notified' = Notify(notified, o, "payment.proofReceived")
         /\ (pc[p] = "upp_save" /\ Acted(p) /\ l.proof \in SubmitDtos) =>
               /\ orders'[o].status = "esperando_pago"
               /\ orders'[o].paymentProof.status = "pending"
               /\ orders'[o].paymentProof.url = l.proof.url
         /\ (pc[p] = "upp_save" /\ Acted(p) /\ l.proof.status = "verified") =>
               /\ orders'[o].status = "pagada"
               /\ orders'[o].paymentProof.status = "verified"
               /\ orders'[o].paymentProof.url = orders[o].paymentProof.url
               /\ notified'[o]["payment.approved"] = 1
      ]_vars

\* Scenario C has happened: a proof was uploaded once and then approved from
\* Telegram; the order is pagada, its proof verified, and each of the two
\* notifications was sent once.
C11_Witness ==
    /\ pc["p1"] = "idle" /\ loc["p1"].op = "telegram" /\ loc["p1"].req = "approved"
    /\ orders[1].status = "pagada"
    /\ orders[1].paymentProof.status = "verified"
    /\ orders[1].paymentProof.url = "img1"
    /\ notified[1]["payment.proofReceived"] = 1
    /\ notified[1]["payment.approved"] = 1

\* The edges of the status machine: the happy path step by step, cancelada from
\* every other status, and completada <-> archivada.
AllowedEdges ==
    {<<"esperando_pago", "pagada">>, <<"pagada", "en_produccion">>,
     <<"en_produccion", "enviada">>, <<"enviada", "completada">>,
     <<"completada", "archivada">>, <<"archivada", "completada">>}
    \cup {<<st, "cancelada">> : st \in Statuses \ {"cancelada"}}

\* C12: a status change of a stored order follows an edge of the status
\* machine; an updateStatus request for any other transition leaves the order
\* as it is.
C12_OnlyEnumeratedEdges ==
    [][\A o \in 1..Len(orders) :
          orders'[o].status # orders[o].status
             => <<orders[o].status, orders'[o].status>> \in AllowedEdges
      ]_vars

\* The notifications for order o sent by this step.
EmittedFor(o) ==
    SumOver([e \in EventNames |-> notified'[o][e] - notified[o][e]], EventNames)

\* The step that ends updateStatus, updateTracking or cancelOrder called by the
\* orders controller, and the status the operation sets. All notifications of
\* these handlers are sent in their last step. (Archive and unarchive are
\* visibility flips and are left out.)
EndsStatusOperation(p) ==
    /\ Acted(p)
    /\ pc[p] \in {"us_after", "ut_after", "cancel_save"}
    /\ loc[p].caller \in {None, "http"}

TargetStatus(p) ==
    CASE pc[p] = "us_after" -> loc[p].status
      [] pc[p] = "ut_after" -> "enviada"
      [] OTHER              -> "cancelada"

\* C13: a status operation that changes the status the order had sends exactly
\* one notification for the order, and one that sets the status the order
\* already had sends none.
C13_OneEventPerStatusChange ==
    [][\A p \in Procs : EndsStatusOperation(p) =>
          EmittedFor(loc[p].orderId) =
              IF TargetStatus(p) # loc[p].snap.status THEN 1 ELSE 0
      ]_vars

\* updateStatus and updatePaymentProof run alone on the order record ord: what
\* the handler assigns and saves when nothing else writes between its read and
\* its save.
ApplyUpdateStatus(ord, status) ==
    [ord EXCEPT !.status = status,
                !.paymentProof.status = SyncProofStatus(status, @)]

ApplyUpdatePaymentProof(ord, dto) ==
    [ord EXCEPT !.paymentProof = MergeProof(@, dto),
                !.status = StatusAfterProof(dto, @)]

\* The request l (a Telegram action or a webhook delivery) run alone on ord.
RunAlone(l, ord) ==
    IF l.op = "telegram" THEN
        CASE l.req = "approved" ->
               ApplyUpdatePaymentProof(ord, ProofDto(None, None, "verified", None))
          [] l.req = "rejected" ->
               ApplyUpdatePaymentProof(ord,
                   ProofDto(None, None, "rejected", "Rechazado por admin desde Telegram"))
          [] l.req = "move_to_produccion" -> ApplyUpdateStatus(ord, "en_produccion")
          [] l.req = "move_to_enviada"    -> ApplyUpdateStatus(ord, "enviada")
          [] OTHER                        -> ApplyUpdateStatus(ord, "completada")
    ELSE LET plan == IF l.req.gateway = "paypal" THEN PaypalPlan(l.req.payload)
                                                 ELSE OnvopayPlan(l.req.payload)
         IN  IF plan.do = "updateStatus"
               THEN LET paid == ApplyUpdateStatus(ord, "pagada") IN
                    IF plan.next = "updatePaymentProof"
                      THEN ApplyUpdatePaymentProof(paid, plan.proof) ELSE paid
             ELSE IF plan.do = "updatePaymentProof"
               THEN ApplyUpdatePaymentProof(ord, plan.proof)
             ELSE ord

\* Each process has run one writer on order 1, and nothing else has written it.
TwoWritersDone ==
    /\ Quiescent /\ ops = 3 /\ Len(orders) = 1
    /\ \A p \in Procs : loc[p].op \in {"telegram", "handleWebhook"}

\* C14: when two writers to one order have run concurrently, the order record
\* is what running them one after the other, in one of the two orders, gives.
C14_WritersSerialized ==
    TwoWritersDone =>
        LET fresh == [orders[1] EXCEPT !.status = "esperando_pago",
                                       !.paymentProof = NoProof]
            a == loc["p1"]
            b == loc["p2"]
        IN  orders[1] \in {RunAlone(b, RunAlone(a, fresh)),
                           RunAlone(a, RunAlone(b, fresh))}

\* C15: a create whose item write or stock debit failed after the order was
\* persisted leaves no partial effect: the order, its items and its debits are
\* all gone.
C15_CreateAtomic ==
    \A p \in Procs :
        (pc[p] = "idle" /\ loc[p].op = "create" /\ loc[p].result = "WriteError")
            => LET o == loc[p].orderId IN
               /\ ~Exists(o)
               /\ ItemsOf(o) = <<>>
               /\ \A v \in Variants : debited[o][v] = credited[o][v]

\* C16: no step of an updatePaymentProof that records the review status
\* rejected or pending (a failed or deferred Onvopay event, a denied PayPal
\* capture, a Telegram rejection) changes the status of any order.
C16_RejectionKeepsStatus ==
    [][\A p \in Procs :
          (/\ Acted(p)
           /\ pc[p] \in {"upp_read", "upp_notify", "upp_save"}
           /\ loc[p].proof.status \in {"rejected", "pending"})
          => \A o \in 1..Len(orders) : orders'[o].status = orders[o].status
      ]_vars

\* A failed Onvopay event was processed for an order awaiting payment: the
\* proof is rejected with the gateway's reference, payment.rejected was sent,
\* and the order still awaits payment.
C16_Witness ==
    \E p \in Procs :
        /\ pc[p] = "idle" /\ loc[p].op = "handleWebhook"
        /\ loc[p].result = AckProcessed
        /\ IsFailed(loc[p].req.payload)
        /\ orders[1].paymentProof.status = "rejected"
        /\ orders[1].paymentProof.reference = "tx2"
        /\ notified[1]["payment.rejected"] = 1
        /\ orders[1].status = "esperando_pago"

\* C17: cancelOrder on an order that is already cancelada answers
\* AlreadyCancelled and ends there, with every stock and every order unchanged.
C17_AlreadyCancelled ==
    [][\A p \in Procs :
          (/\ pc[p] = "cancel_read" /\ Acted(p)
           /\ Exists(loc[p].orderId)
           /\ orders[loc[p].orderId].status = "cancelada")
          => /\ pc'[p] = "idle"
             /\ loc'[p].result = "AlreadyCancelled"
             /\ UNCHANGED <<stock, orders, orderItems, credited>>
      ]_vars

\* An order of one unit was created and cancelled, and a second cancelOrder
\* for it was refused: the unit was credited once.
C17_Witness ==
    \E p \in Procs :
        /\ pc[p] = "idle" /\ loc[p].op = "cancelOrder"
        /\ loc[p].result = "AlreadyCancelled"
        /\ orders[loc[p].orderId].status = "cancelada"
        /\ debited[loc[p].orderId]["v1"] = 1
        /\ credited[loc[p].orderId]["v1"] = 1

\* C18: every step of archiveOrder and unarchiveOrder leaves stock, token
\* balances, order items and notifications unchanged and changes at most the
\* status of its order: archiveOrder's save sets archivada (it writes nothing
\* when the order it read was archivada already), unarchiveOrder's sets
\* completada, and unarchiveOrder on an order that is not archivada answers
\* with an error and changes nothing.
C18_ArchiveVisibilityOnly ==
    [][\A p \in Procs :
          (Acted(p) /\ pc[p] \in {"ar_read", "ar_save", "un_read", "un_save"}) =>
             LET o == loc[p].orderId IN
             /\ UNCHANGED <<stock, vtoTokens, orderItems, notified>>
             /\ Len(orders') = Len(orders)
             /\ \A i \in 1..Len(orders) :
                   orders'[i] = [orders[i] EXCEPT !.status = orders'[i].status]
             /\ \A i \in 1..Len(orders) :
                   orders'[i].status # orders[i].status => i = o
             /\ pc[p] = "ar_save" =>
                   orders'[o].status = IF loc[p].snap.status = "archivada"
                                       THEN orders[o].status ELSE "archivada"
             /\ pc[p] = "un_save" => orders'[o].status = "completada"
             /\ pc[p] \in {"ar_read", "un_read"} => orders' = orders
             /\ (pc[p] = "un_read" /\ Exists(o) /\ orders[o].status # "archivada")
                   => (pc'[p] = "idle" /\ loc'[p].result = "NotArchived")
      ]_vars

\* An order of one unit was archived and then unarchived: it is completada,
\* its unit is still debited, and only order.created was ever notified.
C18_Witness ==
    \E p \in Procs :
        /\ pc[p] = "idle" /\ loc[p].op = "unarchiveOrder" /\ loc[p].result = "ok"
        /\ orders[loc[p].orderId].status = "completada"
        /\ debited[loc[p].orderId]["v1"] = 1
        /\ credited[loc[p].orderId]["v1"] = 0
        /\ Len(ItemsOf(loc[p].orderId)) = 1
        /\ \A e \in EventNames \ {"order.created"} :
              notified[loc[p].orderId][e] = 0

\* C19: a handleWebhook for the gateway onvopay or paypal whose body passed
\* verifyWebhook ends only with an acknowledgment that says received: true,
\* also when the order does not exist or a save fails.
C19_AlwaysAcknowledged ==
    [][\A p \in Procs :
          (/\ Acted(p) /\ pc[p] # "idle" /\ pc'[p] = "idle"
           /\ loc[p].op = "handleWebhook"
           /\ loc[p].req.gateway \in Strategies
           /\ VerifyWebhook(loc[p].req.gateway, loc[p].req.payload,
                            loc[p].req.signature))
          => loc'[p].result \in {AckProcessed, AckIgnored, AckError}
      ]_vars

\* A succeeded event for an order that does not exist was acknowledged with
\* received: true and the error.
C19_Witness ==
    \E p \in Procs :
        /\ pc[p] = "idle" /\ loc[p].op = "handleWebhook"
        /\ loc[p].result = AckError
        /\ loc[p].req.gateway = "onvopay"
        /\ IsSuccess(loc[p].req.payload)
        /\ loc[p].req.payload.orderId = MaxOrders
        /\ Len(orders) = 1

GatewayTxId(req) ==
    IF req.gateway = "paypal" THEN req.payload.id
    ELSE LET id == Or(req.payload.paymentIntentId, Or(req.payload.id, ""))
         IN  IF Falsy(id) THEN None ELSE id

\* The handler classifies the delivery as a payment that succeeded.
SucceededDelivery(req) ==
    IF req.gateway = "paypal" THEN PaypalPlan(req.payload).do = "updateStatus"
    ELSE OnvopayPlan(req.payload).do = "updateStatus"

\* C21: when the handler of a succeeded delivery for an order that awaited its
\* payment returns processed, the order is pagada and its paymentProof is
\* verified, with the transaction id as reference when the delivery has one.
C21_SucceededSettles ==
    [][\A p \in Procs :
          (/\ Acted(p) /\ pc[p] # "idle" /\ pc'[p] = "idle"
           /\ loc[p].op = "handleWebhook"
           /\ loc'[p].result = AckProcessed
           /\ SucceededDelivery(loc[p].req)
           /\ pc[p] = "us_after" => loc[p].snap.status = "esperando_pago")
          => LET o  == loc[p].orderId
                 tx == GatewayTxId(loc[p].req)
             IN  /\ orders'[o].status = "pagada"
                 /\ orders'[o].paymentProof.status = "verified"
                 /\ tx # None => orders'[o].paymentProof.reference = tx
      ]_vars

\* The fields of a paymentProof besides its review status.
ProofFields == {"url", "method", "reference", "reason"}

\* C22: the save of updatePaymentProof keeps every one of url, method,
\* reference and reason that the call does not supply, for every combination
\* of supplied fields and every review status.
C22_MergeKeepsUnsupplied ==
    [][\A p \in Procs :
          (Acted(p) /\ pc[p] = "upp_save")
          => LET o == loc[p].orderId IN
             \A f \in ProofFields :
                 Falsy(loc[p].proof[f])
                 => orders'[o].paymentProof[f] = orders[o].paymentProof[f]
      ]_vars

Emitted(o, e) == notified'[o][e] - notified[o][e]

\* C24: a proof update emits payment.proofReceived exactly when it supplies a
\* new image and sets neither verified nor rejected; an update that sets
\* verified emits payment.approved, one that sets rejected emits
\* payment.rejected, neither emits payment.proofReceived, and the other steps
\* of the update emit nothing.
C24_ProofReceivedOnlyOnUpload ==
    [][\A p \in Procs :
          (Acted(p) /\ pc[p] \in {"upp_read", "upp_notify", "upp_save"})
          => LET o   == loc[p].orderId
                 dto == loc[p].proof
                 upload == dto.url \notin {None, ""}
                           /\ dto.status \notin {"verified", "rejected"}
             IN  IF pc[p] = "upp_notify"
                 THEN /\ Emitted(o, "payment.proofReceived")
                            = IF upload THEN 1 ELSE 0
                      /\ Emitted(o, "payment.approved")
                            = IF dto.status = "verified" THEN 1 ELSE 0
                      /\ Emitted(o, "payment.rejected")
                            = IF dto.status = "rejected" THEN 1 ELSE 0
                      /\ \A q \in OrderIds \ {o}, e \in EventNames :
                            Emitted(q, e) = 0
                 ELSE notified' = notified
      ]_vars

\* An approval that carried an image was saved: payment.approved was emitted
\* and payment.proofReceived was not.
C24_Witness ==
    /\ pc["p1"] = "idle" /\ loc["p1"].op = "updatePaymentProof"
    /\ Exists(1)
    /\ orders[1].paymentProof.url # None
    /\ orders[1].paymentProof.status = "verified"
    /\ notified[1]["payment.approved"] = 1
    /\ notified[1]["payment.proofReceived"] = 0

\* C25: a save of updateStatus or updateTracking that leaves the order pagada,
\* en_produccion, enviada or completada turns a pending review status into
\* verified, and leaves a rejected proof and a missing proof as they are.
C25_PendingPromoted ==
    [][\A p \in Procs :
          (Acted(p) /\ pc[p] \in {"us_save", "ut_save"}
                    /\ orders'[loc[p].orderId].status \in PaidStatuses)
          => LET o == loc[p].orderId IN
             orders'[o].paymentProof =
                 IF orders[o].paymentProof.status = "pending"
                 THEN [orders[o].paymentProof EXCEPT !.status = "verified"]
                 ELSE orders[o].paymentProof
      ]_vars

\* C26: every order whose status is enviada has a tracking number.
C26_ShippedHasTracking ==
    \A o \in 1..Len(orders) :
        orders[o].status = "enviada" => orders[o].trackingNumber # None

\* C27: every persisted order item has a quantity greater than zero, and no
\* variant holds more stock than before the orders.
C27_ItemQuantityPositive ==
    /\ \A i \in 1..Len(orderItems) : orderItems[i].quantity > 0
    /\ \A v \in Variants : stock[v] <= OriginalStock(v)

\* The units of variant v that the lines of an item list ask for.
Requested(items, v) ==
    SumOver([i \in DOMAIN items |->
                IF items[i].variantId = v THEN items[i].quantity ELSE 0],
            DOMAIN items)

\* C28: when create's validation accepts an item list, the quantities of the
\* lines of each variant sum to no more than the variant's stock, and no
\* create leaves a stock below zero.
C28_LinesSummedAgainstStock ==
    [][\A p \in Procs :
          /\ (Acted(p) /\ pc[p] = "create_validate" /\ pc'[p] = "create_persist")
               => \A v \in Variants : Requested(loc[p].req.items, v) <= stock[v]
          /\ (Acted(p) /\ pc[p] = "create_debit")
               => \A v \in Variants : stock'[v] >= 0
      ]_vars

\* C29: no order that is pagada, en_produccion, enviada or completada holds a
\* paymentProof whose review status is pending.
C29_SettledProofNotPending ==
    \A o \in 1..Len(orders) :
        orders[o].status \in PaidStatuses
        => orders[o].paymentProof.status # "pending"

\* C30: an order whose stock cancelOrder has credited back is never pagada,
\* en_produccion, enviada or completada.
C30_CancelledStaysOut ==
    \A o \in 1..Len(orders) :
        (\E v \in Variants : credited[o][v] > 0)
        => orders[o].status \notin PaidStatuses

====
